---- MODULE Spec2Model ----
(***************************************************************************)
(* The protocol client of src/chrome.ts: createChrome's bootstrap          *)
(* (findTarget, startSession), the request/response correlation table,     *)
(* the read loop and its binding bridge, and exit().                       *)
(*                                                                         *)
(* A JSON object is a sequence of <<key, value>> pairs; a field that is    *)
(* absent (undefined in the source) has no pair.  Field(o, k) is the set   *)
(* of values under k: empty when the field is absent.  A JSON text (the    *)
(* result of JSON.stringify) has the same shape with every leaf written    *)
(* as text: a number as its numeral, a string in double quotes.            *)
(***************************************************************************)
EXTENDS Integers, Sequences, FiniteSets, TLC

VARIABLES
    pc,          \* createChrome's position
    headless,    \* createChrome's option
    loop,        \* readLoop: "notStarted", "running", "stopped", "crashed"
    inbox,       \* transport: inbound messages not yet received
    delivered,   \* transport: number of inbound messages so far
    open,        \* transport: not isClosed()
    closeLog,    \* the close() calls made by exit(), in order
    exits,       \* who called exit(): sequence of "loop", "caller", "create"
    target,      \* #target ("" while unset)
    session,     \* #session ("" while unset)
    lastId,      \* #lastId
    pending,     \* #pending: id -> index of its Deferred in handles
    handles,     \* every Deferred made by sendMessage
    bindings,    \* #bindings: the names registered
    calls,       \* binding callables started by the read loop
    sent,        \* transport: every message passed to send()
    logged,      \* logger: every log()/error() call
    evals        \* number of evaluate() calls made by the caller

vars == <<pc, headless, loop, inbox, delivered, open, closeLog, exits, target,
          session, lastId, pending, handles, bindings, calls, sent, logged,
          evals>>

(***************************************************************************)
(* Bounds of the model.                                                    *)
(***************************************************************************)
MaxInbound == 4      \* inbound messages the browser produces
MaxQueue == 1        \* inbound messages buffered by the transport
MaxEval == 2         \* evaluate() calls by the caller
MaxCalls == 1        \* binding-invoked events dispatched to a callable
MaxExit == 1         \* exit() calls by the caller

(***************************************************************************)
(* JSON objects and JSON text.                                             *)
(***************************************************************************)
Field(o, k) == {o[i][2] : i \in {j \in DOMAIN o : o[j][1] = k}}

The(S) == CHOOSE v \in S : TRUE

\* o?.k1?.k2 ... : the set of values at the end of the path (empty = undefined)
RECURSIVE Path(_, _)
Path(o, ks) ==
    IF ks = <<>> THEN {o}
    ELSE IF Field(o, Head(ks)) = {} THEN {}
    ELSE Path(The(Field(o, Head(ks))), Tail(ks))

Digits == <<"0", "1", "2", "3", "4", "5", "6", "7", "8", "9">>

NumText(n) ==
    IF n < 10 THEN Digits[n + 1]
    ELSE Digits[(n \div 10) + 1] \o Digits[(n % 10) + 1]

TextNum(t) == CHOOSE n \in 0..99 : NumText(n) = t

Quote(s) == "\"" \o s \o "\""

\* the strings that occur as values of inbound messages
Strings ==
    {"", "Runtime.consoleAPICalled", "Runtime.exceptionThrown",
     "Runtime.bindingCalled", "perr", "x", "d", "v", "object", "error",
     "string", "greet", "other", "args"}

Unquote(t) == CHOOSE s \in Strings : Quote(s) = t

NumKeys == {"id", "seq", "contextId", "windowId"}
BoolKeys == {"awaitPromise", "returnByValue", "discover", "autoAttach",
             "waitForDebuggerOnStart"}
ObjKeys == {"params", "error", "result", "exceptionDetails", "exception",
            "payload"}

RECURSIVE JSONstringify(_)
JSONstringify(o) ==
    [i \in DOMAIN o |->
        LET k == o[i][1]
            v == o[i][2]
        IN  IF k \in NumKeys THEN <<k, NumText(v)>>
            ELSE IF k \in BoolKeys THEN <<k, IF v THEN "true" ELSE "false">>
            ELSE IF k \in ObjKeys THEN <<k, JSONstringify(v)>>
            ELSE <<k, Quote(v)>>]

RECURSIVE JSONparse(_)
JSONparse(t) ==
    [i \in DOMAIN t |->
        LET k == t[i][1]
            v == t[i][2]
        IN  IF k \in NumKeys THEN <<k, TextNum(v)>>
            ELSE IF k \in BoolKeys THEN <<k, v = "true">>
            ELSE IF k \in ObjKeys THEN <<k, JSONparse(v)>>
            ELSE <<k, Unquote(v)>>]

(***************************************************************************)
(* Identifiers of the modelled browser.                                    *)
(***************************************************************************)
Targets == {"T1", "T2"}
AttachedSession == "S1"      \* the session id the browser issues on attach
ForeignSession == "S2"       \* a session this client never attached
BindingNames == {"greet"}    \* names the host may expose

\* createChrome's enable requests, in order
EnableMethods ==
    <<"Page.enable", "Target.setAutoAttach", "Network.enable",
      "Runtime.enable", "Security.enable", "Performance.enable",
      "Log.enable">>

(***************************************************************************)
(* Inbound messages.  What transport.receive() returns is an object; the   *)
(* message of a target is carried as JSON text in params.message.          *)
(***************************************************************************)
IdPart(ids) == IF ids = {} THEN <<>> ELSE <<<<"id", The(ids)>>>>

TargetCreated(type, tid) ==
    <<<<"method", "Target.targetCreated">>,
      <<"params", <<<<"targetInfo",
                      <<<<"type", type>>, <<"targetId", tid>>>>>>>>>>>>

TargetDestroyed(tid) ==
    <<<<"method", "Target.targetDestroyed">>,
      <<"params", <<<<"targetId", tid>>>>>>>>

\* a response of the browser itself (not multiplexed through a session)
BrowserResponse(id, body) == <<<<"id", id>>>> \o body

FromTarget(sid, inner) ==
    <<<<"method", "Target.receivedMessageFromTarget">>,
      <<"params", <<<<"sessionId", sid>>,
                    <<"message", JSONstringify(inner)>>>>>>>>

\* transport.receive() rejects instead of returning a message
ReceiveFailure == <<<<"throw", "receive failed">>>>

\* payloads of a target's response
ValueObject == <<<<"type", "string">>, <<"value", "v">>>>
ErrorObject ==
    <<<<"type", "object">>, <<"subtype", "error">>, <<"description", "d">>>>
ExceptionDetails == <<<<"exception", <<<<"value", "x">>>>>>>>

ProtocolError == <<<<"error", <<<<"message", "perr">>>>>>>>
ErrorNoMessage == <<<<"error", <<>>>>>>
ErrorNoMessageValue ==
    <<<<"error", <<>>>>, <<"result", <<<<"result", ValueObject>>>>>>>>
PageException ==
    <<<<"result", <<<<"exceptionDetails", ExceptionDetails>>,
                    <<"result", ValueObject>>>>>>>>
ErrorResult == <<<<"result", <<<<"result", ErrorObject>>>>>>>>
ErrorResultException ==
    <<<<"result", <<<<"exceptionDetails", ExceptionDetails>>,
                    <<"result", ErrorObject>>>>>>>>
ValueResult == <<<<"result", <<<<"result", ValueObject>>>>>>>>
RawResult == <<<<"result", <<<<"windowId", 1>>>>>>>>
NoResult == <<>>

Shapes ==
    {ProtocolError, ErrorNoMessage, ErrorNoMessageValue, PageException,
     ErrorResult, ErrorResultException, ValueResult, RawResult, NoResult}

Response(ids, shape) == IdPart(ids) \o shape

Event(ids, method, params) ==
    IdPart(ids) \o <<<<"method", method>>, <<"params", params>>>>

BindingCalled(ids, name) ==
    Event(ids, "Runtime.bindingCalled",
          <<<<"id", 3>>, <<"name", name>>,
            <<"payload", <<<<"name", name>>, <<"seq", 4>>,
                           <<"args", "args">>>>>>>>)

\* the id of the first request sent after the enable requests, which gets
\* every shape of response; the ids around it get a few
FirstId == Len(EnableMethods) + 1
OtherIds == {0, 1, FirstId + 1, FirstId + 2}

TargetMessages ==
    {Response({FirstId}, s) : s \in Shapes}
    \cup {Response({i}, ValueResult) : i \in OtherIds}
    \cup {Response({FirstId + 1}, ProtocolError), Response({}, ValueResult)}
    \cup {Event(i, "Runtime.consoleAPICalled", <<>>) : i \in {{}, {0}}}
    \cup {Event(i, "Runtime.exceptionThrown", <<>>) : i \in {{}, {FirstId}}}
    \cup {BindingCalled({0}, "greet"), BindingCalled({}, "greet"),
          BindingCalled({0}, "other")}

Inbound ==
    {TargetCreated("page", t) : t \in Targets}
    \cup {TargetCreated("other", "T1")}
    \cup {BrowserResponse(1, <<<<"result",
                                 <<<<"sessionId", AttachedSession>>>>>>>>),
          BrowserResponse(1, <<<<"error", <<<<"message", "perr">>>>>>>>),
          BrowserResponse(1, <<<<"result", <<>>>>>>),
          BrowserResponse(0, <<<<"result", <<>>>>>>)}
    \cup {TargetDestroyed(t) : t \in Targets}
    \cup {FromTarget(AttachedSession, m) : m \in TargetMessages}
    \cup {FromTarget(ForeignSession, Response({FirstId}, ValueResult)),
          FromTarget(ForeignSession, BindingCalled({0}, "greet"))}
    \cup {ReceiveFailure}

(***************************************************************************)
(* The initial state: new ChromeImpl(process, transport), before           *)
(* createChrome calls findTarget.                                          *)
(***************************************************************************)
Init ==
    /\ pc = "start"
    /\ headless \in BOOLEAN
    /\ loop = "notStarted"
    /\ inbox = <<>>
    /\ delivered = 0
    /\ open = TRUE
    /\ closeLog = <<>>
    /\ exits = <<>>
    /\ target = ""
    /\ session = ""
    /\ lastId = 0
    /\ pending = <<>>
    /\ handles = <<>>
    /\ bindings = {}
    /\ calls = <<>>
    /\ sent = <<>>
    /\ logged = <<>>
    /\ evals = 0

Range(f) == {f[i] : i \in DOMAIN f}

Count(f, v) == Cardinality({i \in DOMAIN f : f[i] = v})

(***************************************************************************)
(* exit(): closes stderr, the transport and the process, in this order.    *)
(* Closing a resource that is already closed throws (Deno's BadResource),  *)
(* which ends exit() at that call.                                         *)
(***************************************************************************)
Exit(log) ==
    IF "stderr" \in Range(log)
    THEN Append(log, "stderr")
    ELSE log \o <<"stderr", "transport", "process">>

(***************************************************************************)
(* The requests.  A client state st is the record of #lastId, #pending,    *)
(* the Deferreds and the messages sent; threw is set when transport.send   *)
(* failed (the transport is closed) and the call ended there.              *)
(***************************************************************************)
Client == [lastId |-> lastId, pending |-> pending, handles |-> handles,
           sent |-> sent, threw |-> FALSE]

Put(f, k, v) == [x \in DOMAIN f \cup {k} |-> IF x = k THEN v ELSE f[x]]

Remove(f, k) == [x \in DOMAIN f \ {k} |-> f[x]]

Deferred(id, owner) ==
    [id |-> id, owner |-> owner, state |-> "pending", value |-> <<>>,
     by |-> {}]

\* a send that does not put the Deferred in #pending
sendMessage_SendOnly(st, id, method, args, owner) ==
    IF ~open THEN [st EXCEPT !.threw = TRUE]
    ELSE [st EXCEPT
            !.sent = Append(@, <<<<"id", id>>, <<"method", method>>>> \o args),
            !.handles = Append(@, Deferred(id, owner))]

sendMessage(st, id, method, args, owner) ==
    IF ~open THEN [st EXCEPT !.threw = TRUE]
    ELSE [st EXCEPT
            !.sent = Append(@, <<<<"id", id>>, <<"method", method>>>> \o args),
            !.handles = Append(@, Deferred(id, owner)),
            !.pending = Put(@, id, Len(st.handles) + 1)]

nextId(st) == [st EXCEPT !.lastId = @ + 1]

sendMessageToTarget(st, method, args, owner) ==
    LET st1 == nextId(st)
        id == st1.lastId
    IN  sendMessage(st1, id, "Target.sendMessageToTarget",
            <<<<"params",
                <<<<"message",
                    JSONstringify(<<<<"id", id>>, <<"method", method>>,
                                    <<"params", args>>>>)>>,
                  <<"sessionId", session>>>>>>>>,
            owner)

SetClient(st) ==
    /\ lastId' = st.lastId
    /\ pending' = st.pending
    /\ handles' = st.handles
    /\ sent' = st.sent

(***************************************************************************)
(* transport.receive(): the next inbound message, or a failure when the    *)
(* transport is closed or the receive itself fails.                        *)
(***************************************************************************)
ReceiveThrows == ~open \/ (inbox # <<>> /\ Head(inbox) = ReceiveFailure)

\* the number of inbound messages received so far, while the transport is open
Consumed == delivered - Len(inbox)

\* the message a receive returns now, if any
Arrived ==
    IF open /\ inbox # <<>> /\ Head(inbox) # ReceiveFailure
    THEN {Head(inbox)}
    ELSE {}

hasId(x, id) == Field(x, "id") = {id}

hasError(x) == Field(x, "error") # {}

isTargetCreated(x) == Field(x, "method") = {"Target.targetCreated"}

\* a targetCreated of any type
isPageCreated_AnyType(m) == isTargetCreated(m)

\* the condition of findTarget's return
isPageCreated(m) ==
    isTargetCreated(m) /\ Path(m, <<"params", "targetInfo", "type">>) = {"page"}

(***************************************************************************)
(* createChrome.                                                           *)
(***************************************************************************)
RECURSIVE ExitTimes(_, _)
ExitTimes(log, n) == IF n = 0 THEN log ELSE ExitTimes(Exit(log), n - 1)

\* a catch block that rethrows without calling exit()
CreateFails_NoExit(n) ==
    /\ pc' = "failed"
    /\ UNCHANGED <<closeLog, exits, open, inbox>>

\* a catch block of createChrome: n nested catch blocks call exit(), and
\* the error is thrown to createChrome's caller
CreateFails(n) ==
    /\ pc' = "failed"
    /\ closeLog' = ExitTimes(closeLog, n)
    /\ exits' = exits \o [i \in 1..n |-> "create"]
    /\ open' = FALSE
    /\ inbox' = <<>>

\* findTarget, up to its first receive
FindTargetSend ==
    /\ pc = "start"
    /\ LET st == sendMessage(Client, 0, "Target.setDiscoverTargets",
                     <<<<"params", <<<<"discover", TRUE>>>>>>>>, "findTarget")
       IN  IF st.threw
           THEN CreateFails(1) /\ SetClient(Client)
           ELSE /\ pc' = "findTarget"
                /\ SetClient(st)
                /\ UNCHANGED <<closeLog, exits, open, inbox>>
    /\ UNCHANGED <<headless, loop, delivered, target, session, bindings,
                   calls, logged, evals>>

\* findTarget's receive fails: createChrome's catch
FindTargetThrows ==
    /\ pc = "findTarget"
    /\ ReceiveThrows
    /\ CreateFails(1)
    /\ UNCHANGED <<headless, loop, delivered, target, session, lastId,
                   pending, handles, bindings, calls, sent, logged, evals>>

\* findTarget skips a message that is no targetCreated of a page
FindTargetSkip ==
    /\ pc = "findTarget"
    /\ \E m \in Arrived :
        /\ ~isPageCreated(m)
    /\ inbox' = Tail(inbox)
    /\ UNCHANGED <<pc, headless, loop, delivered, open, closeLog, exits,
                   target, session, lastId, pending, handles, bindings,
                   calls, sent, logged, evals>>

\* a createChrome that starts readLoop() when findTarget has returned
FindTargetFound_StartsLoop ==
    /\ pc = "findTarget"
    /\ \E m \in Arrived :
        /\ isPageCreated(m)
        /\ LET targetId == The(Path(m, <<"params", "targetInfo", "targetId">>))
               st == sendMessage(Client, 1, "Target.attachToTarget",
                         <<<<"params", <<<<"targetId", targetId>>>>>>>>,
                         "startSession")
           IN  /\ target' = targetId
               /\ SetClient(st)
    /\ pc' = "startSession"
    /\ loop' = "running"
    /\ inbox' = Tail(inbox)
    /\ UNCHANGED <<headless, delivered, open, closeLog, exits, session,
                   bindings, calls, logged, evals>>

\* findTarget returns the page's targetId; startSession(targetId) runs up
\* to its first receive
FindTargetFound ==
    /\ pc = "findTarget"
    /\ \E m \in Arrived :
        /\ isPageCreated(m)
        /\ LET targetId == The(Path(m, <<"params", "targetInfo", "targetId">>))
               st == sendMessage(Client, 1, "Target.attachToTarget",
                         <<<<"params", <<<<"targetId", targetId>>>>>>>>,
                         "startSession")
           IN  /\ target' = targetId
               /\ SetClient(st)
    /\ pc' = "startSession"
    /\ inbox' = Tail(inbox)
    /\ UNCHANGED <<headless, loop, delivered, open, closeLog, exits, session,
                   bindings, calls, logged, evals>>

\* startSession's receive fails, or the attach response carries an error
StartSessionThrows ==
    /\ pc = "startSession"
    /\ \/ ReceiveThrows
       \/ \E m \in Arrived : hasId(m, 1) /\ hasError(m)
    /\ CreateFails(1)
    /\ UNCHANGED <<headless, loop, delivered, target, session, lastId,
                   pending, handles, bindings, calls, sent, logged, evals>>

\* the truthy result.sessionId of a message, if any
SessionIdOf(m) == Path(m, <<"result", "sessionId">>) \ {""}

\* startSession skips a message that is not the attach response, or an
\* attach response without a session id
StartSessionSkip ==
    /\ pc = "startSession"
    /\ \E m \in Arrived :
        /\ \/ ~hasId(m, 1)
           \/ hasId(m, 1) /\ ~hasError(m) /\ SessionIdOf(m) = {}
    /\ inbox' = Tail(inbox)
    /\ UNCHANGED <<pc, headless, loop, delivered, open, closeLog, exits,
                   target, session, lastId, pending, handles, bindings,
                   calls, sent, logged, evals>>

\* startSession stores the session id and returns
StartSessionAttached ==
    /\ pc = "startSession"
    /\ \E m \in Arrived :
        /\ hasId(m, 1)
        /\ ~hasError(m)
        /\ SessionIdOf(m) # {}
        /\ session' = The(SessionIdOf(m))
    /\ pc' = "enable"
    /\ inbox' = Tail(inbox)
    /\ UNCHANGED <<headless, loop, delivered, open, closeLog, exits, target,
                   lastId, pending, handles, bindings, calls, sent, logged,
                   evals>>

EnableParams(method) ==
    IF method = "Target.setAutoAttach"
    THEN <<<<"autoAttach", TRUE>>, <<"waitForDebuggerOnStart", FALSE>>>>
    ELSE <<>>

\* the for loop of createChrome over the enable requests, from the i-th on
RECURSIVE EnableFrom(_, _)
EnableFrom(st, i) ==
    IF i > Len(EnableMethods) \/ st.threw THEN st
    ELSE EnableFrom(sendMessageToTarget(st, EnableMethods[i],
                        EnableParams(EnableMethods[i]), "createChrome"),
                    i + 1)

\* createChrome after startSession: readLoop() starts, the enable requests
\* are sent and, unless headless, getWindowForTarget's request
Enable ==
    /\ pc = "enable"
    /\ open
    /\ loop' = "running"
    /\ LET st == EnableFrom(Client, 1)
       IN  IF headless
           THEN pc' = "returned" /\ SetClient(st)
           ELSE /\ pc' = "getWindow"
                /\ SetClient(sendMessageToTarget(st,
                       "Browser.getWindowForTarget",
                       <<<<"targetId", target>>>>, "getWindowForTarget"))
    /\ UNCHANGED <<headless, inbox, delivered, open, closeLog, exits, target,
                   session, bindings, calls, logged, evals>>

\* the transport is closed: readLoop() returns at once, the first enable
\* request throws in send, and both catch blocks call exit()
EnableThrows ==
    /\ pc = "enable"
    /\ ~open
    /\ loop' = "stopped"
    /\ SetClient(EnableFrom(Client, 1))
    /\ CreateFails(2)
    /\ UNCHANGED <<headless, delivered, target, session, bindings, calls,
                   logged, evals>>

WindowHandle == {h \in DOMAIN handles : handles[h].owner = "getWindowForTarget"}

\* getWindowForTarget resolved: setWindow, and createChrome returns
GetWindowReturns ==
    /\ pc = "getWindow"
    /\ \E h \in WindowHandle : handles[h].state = "resolved"
    /\ pc' = "returned"
    /\ UNCHANGED <<headless, loop, inbox, delivered, open, closeLog, exits,
                   target, session, lastId, pending, handles, bindings,
                   calls, sent, logged, evals>>

\* getWindowForTarget rejected: both catch blocks call exit()
GetWindowThrows ==
    /\ pc = "getWindow"
    /\ \E h \in WindowHandle : handles[h].state = "rejected"
    /\ CreateFails(2)
    /\ UNCHANGED <<headless, loop, delivered, target, session, lastId,
                   pending, handles, bindings, calls, sent, logged, evals>>

(***************************************************************************)
(* readLoop.                                                               *)
(***************************************************************************)
isFromTarget(m) == Field(m, "method") = {"Target.receivedMessageFromTarget"}

isTargetDestroyed(m) == Field(m, "method") = {"Target.targetDestroyed"}

MessageText(m) == The(Path(m, <<"params", "message">>))

\* the message of any session's target
OfSession_AnySession(m) ==
    IF isFromTarget(m) THEN {JSONparse(MessageText(m))} ELSE {}

\* the message of the attached session's target carried by m, parsed
OfSession(m) ==
    IF isFromTarget(m) /\ Path(m, <<"params", "sessionId">>) = {session}
    THEN {JSONparse(MessageText(m))}
    ELSE {}

\* res.id == 0 && res.method == "Runtime.consoleAPICalled"
\*     || res.method == "Runtime.exceptionThrown"
isLogged(res) ==
    \/ /\ Field(res, "id") = {0}
       /\ Field(res, "method") = {"Runtime.consoleAPICalled"}
    \/ Field(res, "method") = {"Runtime.exceptionThrown"}

isBindingCalled(res) ==
    /\ ~isLogged(res)
    /\ Field(res, "id") = {0}
    /\ Field(res, "method") = {"Runtime.bindingCalled"}

\* res reaches this.#pending.get(res.id): the bindingCalled branch ends in
\* continue, the logging branch does not
isCorrelated(res) == ~isBindingCalled(res)

\* the oldest entry when the id asked for has none
Lookup_OrOldest(table, ids) ==
    IF ids # {} /\ The(ids) \in DOMAIN table THEN {table[The(ids)]}
    ELSE IF DOMAIN table # {}
    THEN {table[CHOOSE k \in DOMAIN table : \A j \in DOMAIN table : k <= j]}
    ELSE {}

\* the entry made last, whatever the id asked for
Lookup_Latest(table, ids) ==
    IF ids # {} /\ DOMAIN table # {}
    THEN {table[CHOOSE k \in DOMAIN table : \A j \in DOMAIN table : j <= k]}
    ELSE {}

\* this.#pending.get(res.id)
Lookup(table, ids) ==
    IF ids # {} /\ The(ids) \in DOMAIN table THEN {table[The(ids)]} ELSE {}

\* no delete: the entry stays in the table
Delete_Keeps(table, ids) == table

\* this.#pending.clear()
Delete_Clears(table, ids) == <<>>

\* this.#pending.delete(res.id)
Delete(table, ids) == IF ids = {} THEN table ELSE Remove(table, The(ids))

Truthy(S) == S # {} /\ S # {""}

RejectWith(message) ==
    [how |-> "rejected", value |-> <<"EvaluateError", message>>]

\* the last two branches: a typed result resolves with JSON.stringify of
\* its value, anything else with the result object of the message
SettleValue(result, text) ==
    IF Truthy(Path(result, <<"result", "type">>))
    THEN [how |-> "resolved",
          value |-> IF Path(result, <<"result", "value">>) = {}
                    THEN <<"undefined", "">>
                    ELSE <<"text",
                           Quote(The(Path(result, <<"result", "value">>)))>>]
    ELSE [how |-> "resolved",
          value |-> <<"object", The(Field(JSONparse(text), "result"))>>]

isErrorResult(result) ==
    /\ Path(result, <<"result", "type">>) = {"object"}
    /\ Path(result, <<"result", "subtype">>) = {"error"}

DescriptionOf(result) ==
    IF Path(result, <<"result", "description">>) = {} THEN ""
    ELSE The(Path(result, <<"result", "description">>))

ExceptionOf(result) ==
    Path(result, <<"exceptionDetails", "exception", "value">>)

\* Settlement without its first branch: res.error is never looked at
Settlement_IgnoresError(res, text) ==
    IF Field(res, "result") = {}
    THEN [how |-> "throws", value |-> <<>>]
    ELSE LET result == The(Field(res, "result"))
         IN  IF ExceptionOf(result) # {}
             THEN RejectWith(Quote(The(ExceptionOf(result))))
             ELSE IF isErrorResult(result)
             THEN RejectWith(DescriptionOf(result))
             ELSE SettleValue(result, text)

\* Settlement without its third branch: an error-typed result is a value
Settlement_NoErrorResult(res, text) ==
    IF Truthy(Path(res, <<"error", "message">>))
    THEN RejectWith(The(Path(res, <<"error", "message">>)))
    ELSE IF Field(res, "result") = {}
    THEN [how |-> "throws", value |-> <<>>]
    ELSE LET result == The(Field(res, "result"))
         IN  IF ExceptionOf(result) # {}
             THEN RejectWith(Quote(The(ExceptionOf(result))))
             ELSE SettleValue(result, text)

\* what the chain of line 261..272 does with the Deferred: reject, resolve,
\* or throw a TypeError on reading a property of the absent res.result
Settlement(res, text) ==
    IF Truthy(Path(res, <<"error", "message">>))
    THEN RejectWith(The(Path(res, <<"error", "message">>)))
    ELSE IF Field(res, "result") = {}
    THEN [how |-> "throws", value |-> <<>>]
    ELSE LET result == The(Field(res, "result"))
         IN  IF ExceptionOf(result) # {}
             THEN RejectWith(Quote(The(ExceptionOf(result))))
             ELSE IF isErrorResult(result)
             THEN RejectWith(DescriptionOf(result))
             ELSE SettleValue(result, text)

\* Deferred.resolve / Deferred.reject: settles a pending promise
Settle(hs, h, out, ids) ==
    IF hs[h].state # "pending" THEN hs
    ELSE [hs EXCEPT ![h] = [@ EXCEPT !.state = out.how, !.value = out.value,
                                     !.by = ids]]

\* a loop that rejects every pending Deferred when it breaks
ReadLoopClosed_RejectsAll ==
    /\ loop = "running"
    /\ ~open
    /\ loop' = "stopped"
    /\ logged' = Append(logged, <<"error", "receive failed">>)
    /\ pending' = <<>>
    /\ handles' = [h \in DOMAIN handles |->
                      IF handles[h].state = "pending"
                      THEN [handles[h] EXCEPT !.state = "rejected"]
                      ELSE handles[h]]
    /\ UNCHANGED <<pc, headless, inbox, delivered, open, closeLog, exits,
                   target, session, lastId, bindings, calls, sent, evals>>

\* receive fails because the transport is closed: the error is logged and
\* the loop breaks
ReadLoopClosed ==
    /\ loop = "running"
    /\ ~open
    /\ loop' = "stopped"
    /\ logged' = Append(logged, <<"error", "receive failed">>)
    /\ UNCHANGED <<pc, headless, inbox, delivered, open, closeLog, exits,
                   target, session, lastId, pending, handles, bindings,
                   calls, sent, evals>>

\* receive fails and the transport is open: the error is logged, and the
\* loop goes on to read m.method of the unassigned m, a TypeError
ReadLoopReceiveThrows ==
    /\ loop = "running"
    /\ open
    /\ inbox # <<>>
    /\ Head(inbox) = ReceiveFailure
    /\ inbox' = Tail(inbox)
    /\ loop' = "crashed"
    /\ logged' = Append(logged, <<"error", "receive failed">>)
    /\ UNCHANGED <<pc, headless, delivered, open, closeLog, exits, target,
                   session, lastId, pending, handles, bindings, calls, sent,
                   evals>>

\* a target message of another session, or a message that is neither a
\* target message nor the attached target's targetDestroyed
ReadLoopSkip ==
    /\ loop = "running"
    /\ \E m \in Arrived :
        \/ isFromTarget(m) /\ OfSession(m) = {}
        \/ ~isFromTarget(m) /\ ~isTargetDestroyed(m)
        \/ isTargetDestroyed(m) /\ Path(m, <<"params", "targetId">>) # {target}
    /\ inbox' = Tail(inbox)
    /\ UNCHANGED <<pc, headless, loop, delivered, open, closeLog, exits,
                   target, session, lastId, pending, handles, bindings,
                   calls, sent, logged, evals>>

\* lines 254..272: the entry of res.id is taken out of #pending and its
\* Deferred settled; reading a property of an absent res.result throws
Correlate(m, res) ==
    LET ids == Field(res, "id")
        resc == Lookup(pending, ids)
        out == Settlement(res, MessageText(m))
    IN  /\ pending' = Delete(pending, ids)
        /\ IF resc = {} THEN UNCHANGED <<handles, loop>>
           ELSE IF out.how = "throws"
           THEN loop' = "crashed" /\ UNCHANGED handles
           ELSE /\ handles' = Settle(handles, The(resc), out, ids)
                /\ UNCHANGED loop

\* a console or exception event: logger.log(params.message); the branch has
\* no continue, so the event goes on to the lookup of its id
ReadLoopLog ==
    /\ loop = "running"
    /\ \E m \in Arrived : \E res \in OfSession(m) :
        /\ isLogged(res)
        /\ logged' = Append(logged, <<"log", MessageText(m)>>)
        /\ Correlate(m, res)
    /\ inbox' = Tail(inbox)
    /\ UNCHANGED <<pc, headless, delivered, open, closeLog, exits, target,
                   session, lastId, bindings, calls, sent, evals>>

\* a bridge that starts a callable whether the name is registered or not
ReadLoopBinding_Unchecked ==
    /\ loop = "running"
    /\ \E m \in Arrived : \E res \in OfSession(m) :
        /\ isBindingCalled(res)
        /\ LET params == The(Field(res, "params"))
               payload == The(Field(params, "payload"))
           IN  calls' = Append(calls,
                   [name |-> The(Field(payload, "name")),
                    seq |-> The(Field(payload, "seq")),
                    contextId |-> The(Field(params, "id")),
                    status |-> "running", followUp |-> {},
                    at |-> Consumed + 1])
    /\ inbox' = Tail(inbox)
    /\ UNCHANGED <<pc, headless, loop, delivered, open, closeLog, exits,
                   target, session, lastId, pending, handles, bindings,
                   sent, logged, evals>>

\* a bindingCalled event: the callable, if registered, is started and not
\* awaited
ReadLoopBinding ==
    /\ loop = "running"
    /\ \E m \in Arrived : \E res \in OfSession(m) :
        /\ isBindingCalled(res)
        /\ LET params == The(Field(res, "params"))
               payload == The(Field(params, "payload"))
               bindingName == The(Field(params, "name"))
           IN  IF bindingName \in bindings
               THEN calls' = Append(calls,
                        [name |-> The(Field(payload, "name")),
                         seq |-> The(Field(payload, "seq")),
                         contextId |-> The(Field(params, "id")),
                         status |-> "running", followUp |-> {},
                         at |-> Consumed + 1])
               ELSE calls' = calls
    /\ inbox' = Tail(inbox)
    /\ UNCHANGED <<pc, headless, loop, delivered, open, closeLog, exits,
                   target, session, lastId, pending, handles, bindings,
                   sent, logged, evals>>

\* any other message of the attached session's target
ReadLoopResponse ==
    /\ loop = "running"
    /\ \E m \in Arrived : \E res \in OfSession(m) :
        /\ ~isLogged(res)
        /\ isCorrelated(res)
        /\ Correlate(m, res)
    /\ inbox' = Tail(inbox)
    /\ UNCHANGED <<pc, headless, delivered, open, closeLog, exits, target,
                   session, lastId, bindings, calls, sent, logged, evals>>

\* exit() and return on the targetDestroyed of any target
ReadLoopDestroyed_AnyTarget ==
    /\ loop = "running"
    /\ \E m \in Arrived : isTargetDestroyed(m)
    /\ closeLog' = Exit(closeLog)
    /\ exits' = Append(exits, "loop")
    /\ open' = FALSE
    /\ inbox' = <<>>
    /\ loop' = IF "stderr" \in Range(closeLog) THEN "crashed" ELSE "stopped"
    /\ UNCHANGED <<pc, headless, delivered, target, session, lastId, pending,
                   handles, bindings, calls, sent, logged, evals>>

\* targetDestroyed of the attached target: exit() and return
ReadLoopDestroyed ==
    /\ loop = "running"
    /\ \E m \in Arrived :
        /\ isTargetDestroyed(m)
        /\ Path(m, <<"params", "targetId">>) = {target}
    /\ closeLog' = Exit(closeLog)
    /\ exits' = Append(exits, "loop")
    /\ open' = FALSE
    /\ inbox' = <<>>
    /\ loop' = IF "stderr" \in Range(closeLog) THEN "crashed" ELSE "stopped"
    /\ UNCHANGED <<pc, headless, delivered, target, session, lastId, pending,
                   handles, bindings, calls, sent, logged, evals>>

\* a loop that never looks at isClosed()
readLoop_IgnoresClose ==
    \/ ReadLoopReceiveThrows
    \/ ReadLoopSkip
    \/ ReadLoopLog
    \/ ReadLoopBinding
    \/ ReadLoopResponse
    \/ ReadLoopDestroyed

\* a loop that awaits the callable it started before its next receive
readLoop_AwaitsBinding ==
    /\ \A i \in DOMAIN calls : calls[i].status # "running"
    /\ \/ ReadLoopClosed
       \/ ReadLoopReceiveThrows
       \/ ReadLoopSkip
       \/ ReadLoopLog
       \/ ReadLoopBinding
       \/ ReadLoopResponse
       \/ ReadLoopDestroyed

readLoop ==
    \/ ReadLoopClosed
    \/ ReadLoopReceiveThrows
    \/ ReadLoopSkip
    \/ ReadLoopLog
    \/ ReadLoopBinding
    \/ ReadLoopResponse
    \/ ReadLoopDestroyed

(***************************************************************************)
(* The binding bridge: the callable of a call completes, and the async     *)
(* function started by the read loop sends the follow-up evaluate.         *)
(***************************************************************************)
\* what a callable does: return a value, or throw an Error with a message
Outcomes == {<<"returns", "V">>, <<"throws", "boom">>}

\* sprintf of the follow-up expression: %[1]s name, %[2]d seq, %[3]s result,
\* %[4]s error
Sprintf(name, seq, result, error) ==
    "if (" \o error \o ") { window['" \o name \o "']['errors'].get("
    \o NumText(seq) \o ")(" \o error \o "); } else { window['" \o name
    \o "']['callbacks'].get(" \o NumText(seq) \o ")(" \o result
    \o "); } window['" \o name \o "']['callbacks'].delete(" \o NumText(seq)
    \o "); window['" \o name \o "']['errors'].delete(" \o NumText(seq)
    \o ");"

\* the expression sent for a call that ended with outcome o
FollowUpExpr(call, o) ==
    LET result == IF o[1] = "returns" THEN Quote(o[2]) ELSE ""
        error == IF o[1] = "throws" THEN o[2] ELSE ""
    IN  Sprintf(call.name, call.seq, result, error)

BindingCompletes(i, o) ==
    /\ calls[i].status = "running"
    /\ LET st == sendMessageToTarget(Client, "Runtime.evaluate",
                     <<<<"expression", FollowUpExpr(calls[i], o)>>,
                       <<"contextId", calls[i].contextId>>>>, "bridge")
       IN  /\ SetClient(st)
           /\ calls' = [calls EXCEPT ![i] =
                  [@ EXCEPT !.status = o[1],
                            !.followUp = IF st.threw THEN {} ELSE {st.lastId}]]
    /\ UNCHANGED <<pc, headless, loop, inbox, delivered, open, closeLog,
                   exits, target, session, bindings, logged, evals>>

(***************************************************************************)
(* The caller, once createChrome has returned the client.                  *)
(***************************************************************************)
evaluate(expr) ==
    /\ pc = "returned"
    /\ evals < MaxEval
    /\ evals' = evals + 1
    /\ SetClient(sendMessageToTarget(Client, "Runtime.evaluate",
           <<<<"expression", expr>>, <<"awaitPromise", TRUE>>,
             <<"returnByValue", TRUE>>>>, "evaluate"))
    /\ UNCHANGED <<pc, headless, loop, inbox, delivered, open, closeLog,
                   exits, target, session, bindings, calls, logged>>

exit ==
    /\ pc = "returned"
    /\ Count(exits, "caller") < MaxExit
    /\ closeLog' = Exit(closeLog)
    /\ exits' = Append(exits, "caller")
    /\ open' = FALSE
    /\ inbox' = <<>>
    /\ UNCHANGED <<pc, headless, loop, delivered, target, session, lastId,
                   pending, handles, bindings, calls, sent, logged, evals>>

\* registers a callable under a name
exposeFunction(name) ==
    /\ pc = "returned"
    /\ name \notin bindings
    /\ bindings' = bindings \cup {name}
    /\ UNCHANGED <<pc, headless, loop, inbox, delivered, open, closeLog,
                   exits, target, session, lastId, pending, handles, calls,
                   sent, logged, evals>>

(***************************************************************************)
(* The browser and the transport.                                          *)
(***************************************************************************)
\* m is a bindingCalled event the read loop can dispatch to a callable
Dispatchable(m) ==
    \E n \in BindingNames : m = FromTarget(AttachedSession, BindingCalled({0}, n))

Deliver(m) ==
    /\ open
    /\ pc # "failed"
    /\ loop \in {"notStarted", "running"}
    /\ delivered < MaxInbound
    /\ Len(inbox) < MaxQueue
    /\ Dispatchable(m) =>
         Len(calls) + Cardinality({i \in DOMAIN inbox : Dispatchable(inbox[i])})
             < MaxCalls
    /\ inbox' = Append(inbox, m)
    /\ delivered' = delivered + 1
    /\ UNCHANGED <<pc, headless, loop, open, closeLog, exits, target, session,
                   lastId, pending, handles, bindings, calls, sent, logged,
                   evals>>

\* the connection is dropped by the other side
Disconnect ==
    /\ open
    /\ pc # "failed"
    /\ open' = FALSE
    /\ inbox' = <<>>
    /\ UNCHANGED <<pc, headless, loop, delivered, closeLog, exits, target,
                   session, lastId, pending, handles, bindings, calls, sent,
                   logged, evals>>

createChrome ==
    \/ FindTargetSend
    \/ FindTargetThrows
    \/ FindTargetSkip
    \/ FindTargetFound
    \/ StartSessionThrows
    \/ StartSessionSkip
    \/ StartSessionAttached
    \/ Enable
    \/ EnableThrows
    \/ GetWindowReturns
    \/ GetWindowThrows

Next ==
    \/ createChrome
    \/ readLoop
    \/ \E i \in DOMAIN calls : \E o \in Outcomes : BindingCompletes(i, o)
    \/ evaluate("1+1")
    \/ exit
    \/ \E name \in BindingNames : exposeFunction(name)
    \/ \E m \in Inbound : Deliver(m)
    \/ Disconnect

Spec == Init /\ [][Next]_vars

\* the read loop is an async function suspended only at its await of
\* receive: when the receive completes or fails, the loop takes its step
FairSpec == Spec /\ WF_vars(readLoop)

(***************************************************************************)
(* Vocabulary of the properties.                                           *)
(***************************************************************************)
\* this step is the read loop receiving a message and going on
LoopReceives == loop = "running" /\ open' /\ inbox' = Tail(inbox)

\* the Deferred that #pending holds for the id of res
Entry(res) == {pending[i] : i \in Field(res, "id") \cap DOMAIN pending}

\* m is the targetDestroyed of the attached target
DestroysAttached(m) ==
    /\ Field(m, "method") = {"Target.targetDestroyed"}
    /\ Path(m, <<"params", "targetId">>) = {target}

\* m is the targetCreated of a page
CreatesPage(m) ==
    /\ Field(m, "method") = {"Target.targetCreated"}
    /\ Path(m, <<"params", "targetInfo", "type">>) = {"page"}

\* the id written in the message that was sent for Deferred h, and the id
\* in the text of the target message it carries (if it carries one)
SentIds(h) ==
    {NumText(i) : i \in Field(sent[h], "id")}
    \cup UNION {Field(t, "id") : t \in Path(sent[h], <<"params", "message">>)}

\* the close() calls of one complete exit()
CloseOrder == <<"stderr", "transport", "process">>

\* findTarget or startSession fails in this state: the send of findTarget
\* on a closed transport, a receive that throws, an attach response with
\* an error
BootstrapFails ==
    \/ pc = "start" /\ ~open
    \/ pc \in {"findTarget", "startSession"} /\ ReceiveThrows
    \/ /\ pc = "startSession"
       /\ \E m \in Arrived : Field(m, "id") = {1} /\ Field(m, "error") # {}

\* the messages of the attached session's target that the next receive
\* of the read loop returns
Next_res ==
    {JSONparse(The(Path(m, <<"params", "message">>))) :
        m \in {x \in Arrived :
                  /\ Field(x, "method") = {"Target.receivedMessageFromTarget"}
                  /\ Path(x, <<"params", "sessionId">>) = {session}}}

(***************************************************************************)
(* C1: every Deferred that is settled was settled by the response whose id *)
(* is the id its request was sent with (in the outer message and in the    *)
(* target message), in whatever order the responses arrive.                *)
(***************************************************************************)
C1_Pairing ==
    \A h \in DOMAIN handles :
        handles[h].state # "pending" =>
            /\ handles[h].by = {handles[h].id}
            /\ SentIds(h) = {NumText(i) : i \in handles[h].by}

\* two evaluate calls, the later one settled while the earlier one waits
C1_OutOfOrder ==
    \E g, h \in DOMAIN handles :
        /\ g < h
        /\ handles[g].owner = "evaluate"
        /\ handles[h].owner = "evaluate"
        /\ handles[g].state = "pending"
        /\ handles[h].state # "pending"

(***************************************************************************)
(* C2 as stated: a correlated response with an error field rejects the     *)
(* pending Deferred of its id with the error's message.                    *)
(***************************************************************************)
C2_ErrorFieldRejects ==
    [][\A m \in Arrived : \A res \in OfSession(m) : \A h \in Entry(res) :
        (LoopReceives /\ isCorrelated(res) /\ Field(res, "error") # {})
            => /\ handles'[h].state = "rejected"
               /\ handles'[h].value =
                      <<"EvaluateError", The(Path(res, <<"error", "message">>))>>
      ]_vars

(***************************************************************************)
(* C2 amended: a correlated response whose error field carries a non-empty *)
(* message rejects the pending Deferred of its id with that message and    *)
(* takes its entry out of the table.                                       *)
(***************************************************************************)
C2_ErrorMessageRejects ==
    [][\A m \in Arrived : \A res \in OfSession(m) : \A h \in Entry(res) :
        (/\ LoopReceives
         /\ isCorrelated(res)
         /\ Path(res, <<"error", "message">>) \notin {{}, {""}})
            => /\ handles'[h].state = "rejected"
               /\ handles'[h].value =
                      <<"EvaluateError", The(Path(res, <<"error", "message">>))>>
               /\ Field(res, "id") \cap DOMAIN pending' = {}
      ]_vars

C2_Rejected ==
    \E h \in DOMAIN handles :
        /\ handles[h].state = "rejected"
        /\ handles[h].value = <<"EvaluateError", "perr">>

(***************************************************************************)
(* C3 as stated: a correlated response whose result has type "object" and  *)
(* subtype "error" rejects the pending Deferred with the description.      *)
(***************************************************************************)
HasErrorResult(res) ==
    /\ Path(res, <<"result", "result", "type">>) = {"object"}
    /\ Path(res, <<"result", "result", "subtype">>) = {"error"}

C3_ErrorResultRejects ==
    [][\A m \in Arrived : \A res \in OfSession(m) : \A h \in Entry(res) :
        (LoopReceives /\ isCorrelated(res) /\ HasErrorResult(res))
            => /\ handles'[h].state = "rejected"
               /\ handles'[h].value =
                      <<"EvaluateError",
                        The(Path(res, <<"result", "result", "description">>))>>
      ]_vars

(***************************************************************************)
(* C3 amended: such a response never resolves the Deferred, it rejects it; *)
(* with the description when the response carries neither a protocol       *)
(* error message nor an exception value, which are looked at first.        *)
(***************************************************************************)
C3_ErrorResultRejectsInOrder ==
    [][\A m \in Arrived : \A res \in OfSession(m) : \A h \in Entry(res) :
        (LoopReceives /\ isCorrelated(res) /\ HasErrorResult(res))
            => /\ handles'[h].state = "rejected"
               /\ (/\ Path(res, <<"error", "message">>) \in {{}, {""}}
                   /\ Path(res, <<"result", "exceptionDetails", "exception",
                                  "value">>) = {})
                    => handles'[h].value =
                         <<"EvaluateError",
                           The(Path(res, <<"result", "result", "description">>))>>
      ]_vars

C3_RejectedWithDescription ==
    \E h \in DOMAIN handles :
        /\ handles[h].state = "rejected"
        /\ handles[h].value = <<"EvaluateError", "d">>

(***************************************************************************)
(* C4: every bindingCalled event of the attached session that names a      *)
(* registered binding starts its callable, and every callable that has     *)
(* completed has sent exactly one follow-up evaluate, whose expression     *)
(* carries the return value or the failure's message.                      *)
(***************************************************************************)
\* the expression in the text of the target message of the last request
LastExpression ==
    UNION {Path(t, <<"params", "expression">>) :
              t \in Path(sent[Len(sent)], <<"params", "message">>)}

C4_OneFollowUp ==
    [][/\ \A m \in Arrived : \A res \in OfSession(m) :
            (/\ LoopReceives
             /\ Field(res, "method") = {"Runtime.bindingCalled"}
             /\ Path(res, <<"params", "name">>) \subseteq bindings)
                => Len(calls') = Len(calls) + 1
       /\ \A i \in DOMAIN calls :
            (calls[i].status = "running" /\ calls'[i].status # "running")
                => /\ Len(sent') = Len(sent) + 1
                   /\ \E o \in Outcomes :
                        /\ o[1] = calls'[i].status
                        /\ LastExpression' = {Quote(FollowUpExpr(calls[i], o))}
      ]_vars

(***************************************************************************)
(* C5: while a callable started by the read loop has not completed, the    *)
(* loop can take its next step on whatever the transport holds.            *)
(***************************************************************************)
C5_LoopNotBlocked ==
    (/\ loop = "running"
     /\ \E i \in DOMAIN calls : calls[i].status = "running"
     /\ (inbox # <<>> \/ ~open))
        => ENABLED readLoop

\* a message was received after the callable started, and it still runs
C5_ReceivedWhileRunning ==
    \E i \in DOMAIN calls :
        /\ calls[i].status = "running"
        /\ loop = "running"
        /\ open
        /\ Consumed > calls[i].at

(***************************************************************************)
(* C6: the read loop ends with one exit() exactly when it receives the     *)
(* targetDestroyed of the attached target: it never receives that event    *)
(* and goes on, it calls exit() for no other message and only once, and    *)
(* once it has, it settles, logs and starts nothing more.                  *)
(***************************************************************************)
C6_DestroyedExitsOnce ==
    [][/\ \A m \in Arrived :
            (loop = "running" /\ DestroysAttached(m))
                => /\ ~LoopReceives
                   /\ loop' # loop
                        => exits' = Append(exits, "loop") /\ loop' = "stopped"
       /\ exits' = Append(exits, "loop")
            => /\ "loop" \notin Range(exits)
               /\ loop = "running"
               /\ \E m \in Arrived : DestroysAttached(m)
       /\ "loop" \in Range(exits)
            => /\ loop' = loop
               /\ logged' = logged
               /\ pending' = pending
               /\ Len(calls') = Len(calls)
               /\ \A h \in DOMAIN handles : handles'[h] = handles[h]
      ]_vars

C6_LoopExited == "loop" \in Range(exits) /\ loop = "stopped"

(***************************************************************************)
(* C7: when exit() is called after the read loop has ended through         *)
(* targetDestroyed, no resource is closed a second time.                   *)
(***************************************************************************)
C7_NoSecondClose ==
    ("loop" \in Range(exits) /\ "caller" \in Range(exits))
        => \A r \in Range(closeLog) : Count(closeLog, r) = 1

(***************************************************************************)
(* C8: findTarget has sent one Target.setDiscoverTargets request; its wait *)
(* ends with a result only on the targetCreated of a page, whose targetId  *)
(* becomes the target, and receiving any other message leaves it waiting.  *)
(***************************************************************************)
Discovers == {i \in DOMAIN sent :
                 Field(sent[i], "method") = {"Target.setDiscoverTargets"}}

C8_FindTarget ==
    [][pc = "findTarget" =>
        /\ Cardinality(Discovers) = 1
        /\ pc' \notin {"findTarget", "failed"}
            => /\ pc' = "startSession"
               /\ inbox' = Tail(inbox)
               /\ \E m \in Arrived :
                    /\ CreatesPage(m)
                    /\ {target'} = Path(m, <<"params", "targetInfo", "targetId">>)
        /\ \A m \in Arrived :
            /\ (~CreatesPage(m) /\ open') => pc' = "findTarget"
            /\ (CreatesPage(m) /\ open' /\ inbox' = Tail(inbox))
                => pc' = "startSession"
      ]_vars

\* findTarget has returned the id of a page after more than one message
C8_Found == pc = "startSession" /\ open /\ target = "T2" /\ Consumed >= 2

(***************************************************************************)
(* C9: the ids of the request counter are greater than the ids of the      *)
(* bootstrap requests, and no two requests are sent with the same id.      *)
(***************************************************************************)
Bootstrap == {h \in DOMAIN handles :
                 handles[h].owner \in {"findTarget", "startSession"}}

C9_IdsAboveBootstrap ==
    /\ \A h \in DOMAIN handles \ Bootstrap : \A b \in Bootstrap :
            handles[h].id > handles[b].id
    /\ \A g, h \in DOMAIN handles : handles[g].id = handles[h].id => g = h

(***************************************************************************)
(* C10: a step that rejects a Deferred settles no other one, takes only    *)
(* its entry out of the table, and leaves the read loop running.           *)
(***************************************************************************)
C10_RejectionIsLocal ==
    [][\A h \in DOMAIN handles :
        (handles[h].state = "pending" /\ handles'[h].state = "rejected")
            => /\ \A g \in DOMAIN handles \ {h} : handles'[g] = handles[g]
               /\ DOMAIN pending' = DOMAIN pending \ {handles[h].id}
               /\ \A k \in DOMAIN pending' :
                    /\ pending'[k] = pending[k]
                    /\ handles'[pending'[k]].state = "pending"
               /\ loop = "running"
               /\ loop' = "running"
      ]_vars

\* a request was rejected while another one is pending, and the loop runs
C10_RejectedOthersPending ==
    /\ loop = "running"
    /\ \E g, h \in DOMAIN handles :
        /\ handles[g].state = "rejected"
        /\ handles[h].owner = "evaluate"
        /\ handles[h].state = "pending"
        /\ handles[h].id \in DOMAIN pending

(***************************************************************************)
(* C11: when the read loop's receive fails, the error is logged; the loop  *)
(* ends if the transport is closed, and otherwise goes on to the next      *)
(* receive and keeps running.                                              *)
(***************************************************************************)
C11_ReceiveFailureTolerated ==
    [][(/\ loop = "running"
        /\ ReceiveThrows
        /\ \/ loop' # loop
           \/ inbox # <<>> /\ open' /\ inbox' = Tail(inbox))
            => /\ logged' = Append(logged, <<"error", "receive failed">>)
               /\ loop' = IF open THEN "running" ELSE "stopped"
      ]_vars

(***************************************************************************)
(* C12: until startSession has returned the read loop is not started and   *)
(* exit() has not been called; when findTarget or startSession fails,      *)
(* createChrome fails, and it fails with one exit() that closes stderr,    *)
(* the transport and the process.                                          *)
(***************************************************************************)
C12_BootstrapFailurePropagates ==
    [][(pc \in {"start", "findTarget", "startSession"}) =>
        /\ loop = "notStarted"
        /\ loop' = "notStarted"
        /\ exits = <<>>
        /\ (BootstrapFails /\ pc' # pc) => pc' = "failed"
        /\ pc' = "failed"
            => /\ exits' = <<"create">>
               /\ closeLog' = CloseOrder
               /\ open' = FALSE
      ]_vars

\* startSession failed after findTarget had returned a target
C12_StartSessionFailed ==
    /\ pc = "failed"
    /\ target # ""
    /\ session = ""
    /\ loop = "notStarted"
    /\ closeLog = CloseOrder

(***************************************************************************)
(* C13: startSession skips every message that does not carry the attach    *)
(* id 1; on the message that does, it fails and stores no session when the *)
(* message carries an error, and otherwise stores the session id of its    *)
(* result and returns.                                                     *)
(***************************************************************************)
C13_AttachResponseEndsWait ==
    [][pc = "startSession" => \A m \in Arrived :
        ((open' /\ inbox' = Tail(inbox)) \/ pc' # pc)
            => IF Field(m, "id") = {1}
               THEN IF Field(m, "error") # {}
                    THEN pc' = "failed" /\ session' = ""
                    ELSE /\ pc' = "enable"
                         /\ {session'} = Path(m, <<"result", "sessionId">>)
               ELSE pc' = "startSession" /\ session' = session
      ]_vars

(***************************************************************************)
(* C14: every call of exit() closes stderr, then the transport, then the   *)
(* process: the close() calls made so far are that sequence, once for      *)
(* every call.                                                             *)
(***************************************************************************)
C14_EveryExitClosesAll ==
    /\ Len(closeLog) = Len(CloseOrder) * Len(exits)
    /\ \A i \in DOMAIN closeLog :
         closeLog[i] = CloseOrder[((i - 1) % Len(CloseOrder)) + 1]

(***************************************************************************)
(* C15: once the read loop has stopped (and in the step that stops it),    *)
(* every entry of the table stays in the table and its Deferred stays      *)
(* pending.                                                                *)
(***************************************************************************)
C15_PendingAfterTermination ==
    [][loop' = "stopped" =>
        \A k \in DOMAIN pending :
            /\ k \in DOMAIN pending'
            /\ pending'[k] = pending[k]
            /\ handles[pending[k]].state = "pending"
            /\ handles'[pending[k]] = handles[pending[k]]
      ]_vars

\* the loop stopped while an evaluate call waits for its response
C15_StoppedWithPending ==
    /\ loop = "stopped"
    /\ \E k \in DOMAIN pending :
        /\ handles[pending[k]].owner = "evaluate"
        /\ handles[pending[k]].state = "pending"

(***************************************************************************)
(* C16: a Deferred that is settled is never settled again, and it is no    *)
(* longer in the table, so that a further response with its id finds no    *)
(* entry.                                                                  *)
(***************************************************************************)
C16_SettledOnce ==
    [][\A h \in DOMAIN handles :
        /\ handles[h].state # "pending" => handles'[h] = handles[h]
        /\ handles'[h].state # "pending"
            => \A k \in DOMAIN pending' : pending'[k] # h
      ]_vars

\* the loop is about to receive a second response with the id of a
\* Deferred that a first response has settled
C16_SecondResponse ==
    /\ loop = "running"
    /\ \E m \in Arrived : \E h \in DOMAIN handles :
        /\ Field(m, "method") = {"Target.receivedMessageFromTarget"}
        /\ Path(m, <<"params", "sessionId">>) = {session}
        /\ Field(JSONparse(MessageText(m)), "id") = {handles[h].id}
        /\ Field(JSONparse(MessageText(m)), "method") = {}
        /\ handles[h].state # "pending"
        /\ handles[h].by = {handles[h].id}

(***************************************************************************)
(* C17: an entry that a step takes out of the table has its Deferred       *)
(* settled by that step.                                                   *)
(***************************************************************************)
C17_RemovedIsSettled ==
    [][\A k \in DOMAIN pending :
        k \notin DOMAIN pending' => handles'[pending[k]].state # "pending"
      ]_vars

(***************************************************************************)
(* C18: in every state in which the read loop can receive, the Deferred of *)
(* the last request sent with an id, while it is pending, is the entry of  *)
(* that id in the table.                                                   *)
(***************************************************************************)
C18_SentIsRegistered ==
    loop # "crashed" =>
        \A h \in DOMAIN handles :
            (/\ handles[h].state = "pending"
             /\ \A g \in DOMAIN handles : handles[g].id = handles[h].id => g <= h)
                => /\ handles[h].id \in DOMAIN pending
                   /\ pending[handles[h].id] = h

\* the response of an evaluate call found its entry
C18_ResponseMatched ==
    \E h \in DOMAIN handles :
        /\ handles[h].owner = "evaluate"
        /\ handles[h].state = "resolved"
        /\ handles[h].by = {handles[h].id}
        /\ handles[h].id \notin DOMAIN pending

(***************************************************************************)
(* C19: the read loop's step on a target message of another session than   *)
(* the attached one changes neither the table, nor a Deferred, nor the     *)
(* logger, starts no callable, and leaves the loop running.                *)
(***************************************************************************)
C19_ForeignSessionDiscarded ==
    [][\A m \in Arrived :
        (/\ LoopReceives
         /\ Field(m, "method") = {"Target.receivedMessageFromTarget"}
         /\ Path(m, <<"params", "sessionId">>) # {session})
            => /\ pending' = pending
               /\ handles' = handles
               /\ logged' = logged
               /\ calls' = calls
               /\ loop' = "running"
      ]_vars

\* the loop is about to receive another session's response that carries
\* the id of an entry of the table
C19_ForeignForPending ==
    /\ loop = "running"
    /\ \E m \in Arrived : \E k \in DOMAIN pending :
        /\ Field(m, "method") = {"Target.receivedMessageFromTarget"}
        /\ Path(m, <<"params", "sessionId">>) = {ForeignSession}
        /\ Field(JSONparse(MessageText(m)), "id") = {k}
        /\ handles[pending[k]].owner = "evaluate"

(***************************************************************************)
(* C20: a step of the read loop that passes a target message to            *)
(* logger.log changes neither the table nor a Deferred, and the loop keeps *)
(* running.                                                                *)
(***************************************************************************)
C20_LoggedNotCorrelated ==
    [][\A m \in Arrived :
        (/\ LoopReceives
         /\ Field(m, "method") = {"Target.receivedMessageFromTarget"}
         /\ logged' = Append(logged, <<"log", MessageText(m)>>))
            => /\ pending' = pending
               /\ handles' = handles
               /\ loop' = "running"
      ]_vars

(***************************************************************************)
(* C21: the read loop's step on a response of the attached session whose   *)
(* id has no entry in the table settles no Deferred, leaves the table as   *)
(* it is and leaves the loop running.                                      *)
(***************************************************************************)
C21_UnknownIdDropped ==
    [][\A res \in Next_res :
        (/\ LoopReceives
         /\ Field(res, "method") = {}
         /\ Field(res, "id") \cap DOMAIN pending = {})
            => /\ pending' = pending
               /\ handles' = handles
               /\ loop' = "running"
      ]_vars

\* the loop is about to receive a response with an id that has no entry,
\* while an evaluate call waits
C21_UnknownIdArrives ==
    /\ loop = "running"
    /\ \E res \in Next_res :
        /\ Field(res, "method") = {}
        /\ Field(res, "id") # {}
        /\ Field(res, "id") \cap DOMAIN pending = {}
    /\ \E k \in DOMAIN pending : handles[pending[k]].owner = "evaluate"

(***************************************************************************)
(* C22: the read loop's step on a response that has an entry settles its   *)
(* Deferred by the first shape that matches: an error message rejects      *)
(* with it; else an exception value rejects with its text; else a result   *)
(* of type object and subtype error rejects with its description; else a   *)
(* typed result resolves with the text of its value; else it resolves      *)
(* with the result object.                                                 *)
(***************************************************************************)
C22_SettlementOrder ==
    [][\A res \in Next_res : \A h \in Entry(res) :
        (LoopReceives /\ Field(res, "method") = {})
            => LET error == Path(res, <<"error", "message">>) \ {""}
                   exception == Path(res, <<"result", "exceptionDetails",
                                            "exception", "value">>)
                   type == Path(res, <<"result", "result", "type">>) \ {""}
                   value == Path(res, <<"result", "result", "value">>)
               IN  IF error # {}
                   THEN /\ handles'[h].state = "rejected"
                        /\ handles'[h].value = <<"EvaluateError", The(error)>>
                   ELSE IF exception # {}
                   THEN /\ handles'[h].state = "rejected"
                        /\ handles'[h].value =
                               <<"EvaluateError", Quote(The(exception))>>
                   ELSE IF HasErrorResult(res)
                   THEN /\ handles'[h].state = "rejected"
                        /\ handles'[h].value =
                               <<"EvaluateError",
                                 The(Path(res, <<"result", "result",
                                                 "description">>))>>
                   ELSE IF type # {}
                   THEN /\ handles'[h].state = "resolved"
                        /\ value # {}
                            => handles'[h].value = <<"text", Quote(The(value))>>
                   ELSE /\ handles'[h].state = "resolved"
                        /\ handles'[h].value[1] = "object"
      ]_vars

(***************************************************************************)
(* C23: at most one of findTarget, startSession and the read loop waits on *)
(* transport.receive, and they run in this order: the loop is started      *)
(* only when startSession has stored the session, and startSession only    *)
(* when findTarget has returned the target.                                *)
(***************************************************************************)
C23_SingleReceiver ==
    /\ Cardinality({w \in {"findTarget", "startSession"} : pc = w}
                   \cup {w \in {"readLoop"} : loop = "running"}) <= 1
    /\ loop # "notStarted" => session # ""
    /\ pc = "startSession" => target # ""
    /\ session # "" => target # ""

\* the read loop has received a message after the two bootstrap waits
C23_LoopReceived ==
    /\ loop = "running"
    /\ open
    /\ Consumed > 2

(***************************************************************************)
(* C24: the read loop's step on a bindingCalled event (id zero or absent)  *)
(* that names a binding that is not registered starts no callable, sends   *)
(* no request, leaves the table and every Deferred as they are, and        *)
(* leaves the loop running.                                                *)
(***************************************************************************)
C24_UnregisteredDropped ==
    [][\A res \in Next_res :
        (/\ LoopReceives
         /\ Field(res, "method") = {"Runtime.bindingCalled"}
         /\ Field(res, "id") \subseteq {0}
         /\ Path(res, <<"params", "name">>) \cap bindings = {})
            => /\ calls' = calls
               /\ sent' = sent
               /\ pending' = pending
               /\ handles' = handles
               /\ loop' = "running"
      ]_vars

\* the loop is about to receive an event with id zero that names a binding
\* that is not registered, while another binding is
C24_UnregisteredArrives ==
    /\ loop = "running"
    /\ bindings # {}
    /\ \E res \in Next_res :
        /\ Field(res, "method") = {"Runtime.bindingCalled"}
        /\ Field(res, "id") = {0}
        /\ Path(res, <<"params", "name">>) \cap bindings = {}

(***************************************************************************)
(* C25: the read loop's step on a Runtime.exceptionThrown message whose id *)
(* is neither absent nor zero passes nothing to the logger.                *)
(***************************************************************************)
C25_ExceptionWithIdNotLogged ==
    [][\A res \in Next_res :
        (/\ LoopReceives
         /\ Field(res, "method") = {"Runtime.exceptionThrown"}
         /\ Field(res, "id") \ {0} # {})
            => logged' = logged
      ]_vars

(***************************************************************************)
(* C26: the read loop's step on an event without an id field does what it  *)
(* does on the event with id zero: a consoleAPICalled event is passed to   *)
(* the logger, a bindingCalled event that names a registered binding       *)
(* starts its callable.                                                    *)
(***************************************************************************)
C26_AbsentIdIsSentinel ==
    [][\A m \in Arrived : \A res \in Next_res :
        (LoopReceives /\ Field(res, "id") = {})
            => /\ Field(res, "method") = {"Runtime.consoleAPICalled"}
                    => logged' = Append(logged,
                           <<"log", The(Path(m, <<"params", "message">>))>>)
               /\ (/\ Field(res, "method") = {"Runtime.bindingCalled"}
                   /\ Path(res, <<"params", "name">>) \cap bindings # {})
                    => Len(calls') = Len(calls) + 1
      ]_vars

(***************************************************************************)
(* C27: the requests of findTarget and startSession put nothing in the     *)
(* table: it is empty until the read loop starts.                          *)
(***************************************************************************)
C27_TableEmptyAtLoopStart == loop = "notStarted" => pending = <<>>

(***************************************************************************)
(* C30: when createChrome has failed, its catch blocks have called exit()  *)
(* at most once and no resource was closed twice.                          *)
(***************************************************************************)
C30_OneExitOnFailure ==
    pc = "failed" =>
        /\ Count(exits, "create") <= 1
        /\ \A r \in Range(closeLog) : Count(closeLog, r) = 1

(***************************************************************************)
(* C28: when the loop is running and the transport holds a response of     *)
(* the attached session with the id of an entry of the table, the          *)
(* Deferred of that entry is eventually settled, unless the transport is   *)
(* closed first.                                                           *)
(***************************************************************************)
\* the most Deferreds a run makes
HandleBound == Len(EnableMethods) + 3 + MaxEval + MaxCalls

\* the transport holds a response for the entry of Deferred h
Answered(h) ==
    /\ h \in DOMAIN handles
    /\ loop = "running"
    /\ open
    /\ handles[h].id \in DOMAIN pending
    /\ pending[handles[h].id] = h
    /\ \E i \in DOMAIN inbox :
        /\ Field(inbox[i], "method") = {"Target.receivedMessageFromTarget"}
        /\ Path(inbox[i], <<"params", "sessionId">>) = {session}
        /\ LET res == JSONparse(The(Path(inbox[i], <<"params", "message">>)))
           IN  Field(res, "method") = {} /\ Field(res, "id") = {handles[h].id}

C28_ResponseSettles ==
    \A h \in 1..HandleBound :
        Answered(h)
            ~> ((h \in DOMAIN handles /\ handles[h].state # "pending") \/ ~open)

(***************************************************************************)
(* C29: when the transport is closed while the read loop runs, the loop    *)
(* eventually stops; and while the transport is closed no Deferred is      *)
(* settled, no entry leaves the table, no callable is started, nothing is  *)
(* passed to logger.log, and the loop, once ended, does not run again.     *)
(***************************************************************************)
C29_ClosedLoopStops ==
    /\ (~open /\ loop = "running") ~> (loop = "stopped")
    /\ [][~open =>
            /\ pending' = pending
            /\ \A h \in DOMAIN handles : handles'[h] = handles[h]
            /\ Len(calls') = Len(calls)
            /\ \A i \in DOMAIN logged' \ DOMAIN logged : logged'[i][1] = "error"
            /\ loop' \in {loop, "stopped"}
         ]_vars

\* the caller's exit() closed the transport and the loop has stopped
C29_StoppedAfterExit ==
    /\ loop = "stopped"
    /\ exits = <<"caller">>
    /\ \E i \in DOMAIN logged : logged[i][1] = "error"
====
